---------------------------- MODULE Spec2Model ----------------------------
(***************************************************************************)
(* The Position controller of position-backend                             *)
(* (src/controllers/position.js, routed by src/routes/position.js and      *)
(* mounted by the application file src/unnamed/part_000).                  *)
(*                                                                         *)
(* Every request is an async handler.  A handler runs synchronously up to  *)
(* its next `await`; one action of this module is one such segment: the    *)
(* awaited store operation completes (or throws) and the handler runs on   *)
(* to the next await or to its response.  Segments of different requests   *)
(* interleave freely.                                                      *)
(*                                                                         *)
(* The document store is modelled by what the controller relies on: reads  *)
(* outside a session see committed documents only; the writes issued with  *)
(* { session: sess } are buffered in the session and become visible        *)
(* together when commitTransaction() resolves, or never.  Any awaited      *)
(* store operation may throw (connection loss, write conflict, ...).       *)
(***************************************************************************)
EXTENDS Integers, Sequences, FiniteSets, Bags, TLC

(***************************************************************************)
(* Bounds of the model.                                                    *)
(***************************************************************************)
MaxRequests == 3   \* requests received in one behaviour
MaxInFlight == 2   \* requests whose handlers overlap
NumUsers == 2      \* User documents in the store

(***************************************************************************)
(* Program constants.                                                      *)
(***************************************************************************)
MinDescriptionLength == 5   \* check('description').isLength({ min: 5 })

UserIds == 1 .. NumUsers
PositionIds == 1 .. MaxRequests

(***************************************************************************)
(* Identities.  A document's _id is an ObjectId (a number here); the       *)
(* requester id carried by the token, and a populated document's `id`      *)
(* getter, are its string form.                                            *)
(***************************************************************************)
IdToString(oid) == <<"ObjectId", oid>>
CastObjectId(str) == str[2]

\* req.userData.userId: every User of the store, and one identity (0) whose
\* token verifies but that owns no User document.
Requesters == {IdToString(u) : u \in 0 .. NumUsers}

\* req.body of POST /: one body that passes the validators and one per
\* validator that fails it.
CreateBodies ==
  { [title |-> "",     description |-> "Nice spot", address |-> "1 Main St"],
    [title |-> "Cafe", description |-> "Nice",      address |-> "1 Main St"],
    [title |-> "Cafe", description |-> "Nice spot", address |-> ""],
    [title |-> "Cafe", description |-> "Nice spot", address |-> "1 Main St"] }

\* req.body of PUT /:id: two bodies that pass and one per validator that fails.
UpdateBodies ==
  { [title |-> "",    description |-> "Nice bar"],
    [title |-> "Bar", description |-> "Nice"],
    [title |-> "Bar", description |-> "Nice bar"],
    [title |-> "Pub", description |-> "Nice bar"] }

\* req.file.path, set by the upload middleware of POST /; a request that
\* carries no file has no req.file.
ImagePath == "uploads/images/1.png"
NoFile == ""
Files == {ImagePath, NoFile}

\* What getCoordsForAddress resolves to, and the codes of the error it throws.
Coordinates == {[lat |-> 40, lng |-> 74]}
GeocodeErrorCodes == {422}

\* The value of an unset local variable, and of an absent document.
Null == [null |-> TRUE]

VARIABLES
  positions,       \* the committed Position collection: id -> document or Null
  users,           \* the committed User collection: id -> its positions set
  nextId,          \* the next ObjectId `new Position(...)` generates
  handlers,        \* the handlers in flight (a bag): where each is, and its locals
  res,             \* the response sent last, with the request it answers
  unhandled,       \* the rejections of handler promises that nothing handled
  served,          \* requests received so far
  pendingUnlinks,  \* fs.unlink callbacks not yet run, by the place that issued them
  uncaught         \* the exception that reached the process boundary, if any

vars == <<positions, users, nextId, handlers, res, unhandled, served, pendingUnlinks, uncaught>>

NoException == [source |-> "none", value |-> "none"]

NoRequest ==
  [ pc |-> "idle", op |-> "none", userId |-> <<>>, body |-> Null, file |-> NoFile,
    id |-> 0, loaded |-> Null, position |-> Null, user |-> Null, sess |-> {},
    status |-> 0, storeCalls |-> 0 ]

Init ==
  /\ positions = [i \in PositionIds |-> Null]
  /\ users = [u \in UserIds |-> {}]
  /\ nextId = 1
  /\ handlers = EmptyBag
  /\ res = NoRequest
  /\ unhandled = {}
  /\ served = 0
  /\ pendingUnlinks = {}
  /\ uncaught = NoException

Running == uncaught = NoException

\* A request arrives.
CanStart ==
  /\ Running
  /\ served < MaxRequests
  /\ BagCardinality(handlers) < MaxInFlight

\* The handler r starts, moves on to r2, ends.
Begin(r) == handlers' = handlers (+) SetToBag({r})
Step(r, r2) == handlers' = (handlers (-) SetToBag({r})) (+) SetToBag({r2})
End(r) == handlers' = handlers (-) SetToBag({r})

At(r, o, where) ==
  /\ Running
  /\ r.op = o
  /\ r.pc = where

(***************************************************************************)
(* Validators of the routes: check('title').not().isEmpty(),               *)
(* check('description').isLength({ min: 5 }), check('address').not()       *)
(* .isEmpty().                                                             *)
(***************************************************************************)
TitleValidator(title) == title # ""

DescriptionValidator_min4(description) == Len(description) >= MinDescriptionLength - 1

DescriptionValidator(description) == Len(description) >= MinDescriptionLength

AddressValidator(address) == address # ""

CreateValidators(body) ==
  /\ TitleValidator(body.title)
  /\ DescriptionValidator(body.description)
  /\ AddressValidator(body.address)

UpdateValidators(body) ==
  /\ TitleValidator(body.title)
  /\ DescriptionValidator(body.description)

(***************************************************************************)
(* res.status(code).json(json).  `res` keeps the request it answers (op,   *)
(* body, id, userId, the store calls made for it), the status and the      *)
(* Position of the payload.                                                *)
(***************************************************************************)
Reply(r, code, json) ==
  res' = [r EXCEPT !.pc = "done", !.status = code, !.position = json,
                   !.loaded = Null, !.user = Null, !.sess = {}]

(***************************************************************************)
(* next(error): the application's error middleware.  It unlinks the        *)
(* uploaded file when the request carried one, then sends error.code and   *)
(* the message.                                                            *)
(***************************************************************************)
ErrorHandler(r, code) ==
  /\ Reply(r, code, Null)
  /\ pendingUnlinks' = IF r.file # NoFile
                         THEN pendingUnlinks \cup {"errorHandler"}
                         ELSE pendingUnlinks

\* return next(error) in the handler h, whose locals are then r.
NextError(h, r, code) ==
  /\ End(h)
  /\ ErrorHandler(r, code)

(***************************************************************************)
(* The session's buffered writes, as mongoose sends them.                  *)
(***************************************************************************)
InsertOp(position) == [kind |-> "insert", doc |-> position]

RemoveOp(position) == [kind |-> "remove", id |-> position.id]

PushOp(user, position) == [kind |-> "$push", user |-> user.id, id |-> position.id]

PullAllOp_creator(user, position) ==
  [kind |-> "$pullAll", user |-> user.id, id |-> user.id]

PullAllOp(user, position) ==
  [kind |-> "$pullAll", user |-> user.id, id |-> position.id]

\* commitTransaction(): the Position collection after the session's writes.
CommitPositions(ps, sess) ==
  [i \in PositionIds |->
     IF \E w \in sess : w.kind = "remove" /\ w.id = i THEN Null
     ELSE IF \E w \in sess : w.kind = "insert" /\ w.doc.id = i
            THEN (CHOOSE w \in sess : w.kind = "insert" /\ w.doc.id = i).doc
            ELSE ps[i]]

\* commitTransaction(): the User collection after the session's writes.
CommitUsers(us, sess) ==
  [u \in UserIds |->
     (us[u] \cup {w.id : w \in {x \in sess : x.kind = "$push" /\ x.user = u}})
       \ {w.id : w \in {x \in sess : x.kind = "$pullAll" /\ x.user = u}}]

\* The catch block of a transaction: the session is dropped uncommitted.
DroppedPositions_visible(ps, sess) == CommitPositions(ps, sess)

DroppedPositions(ps, sess) == ps

DroppedUsers(us, sess) == us

TxnFailed(h) ==
  /\ positions' = DroppedPositions(positions, h.sess)
  /\ users' = DroppedUsers(users, h.sess)
  /\ NextError(h, h, 500)

(***************************************************************************)
(* create                                                                  *)
(***************************************************************************)
NewPosition_dummyCreator(id, body, coordinates, file, userId) ==
  [ id |-> id, title |-> body.title, description |-> body.description,
    address |-> body.address, location |-> coordinates, image |-> file,
    creator |-> 1 ]

NewPosition(id, body, coordinates, file, userId) ==
  [ id |-> id, title |-> body.title, description |-> body.description,
    address |-> body.address, location |-> coordinates, image |-> file,
    creator |-> CastObjectId(userId) ]

\* POST /: validationResult, then getCoordsForAddress is awaited.
CreateRequest ==
  \E b \in CreateBodies, f \in Files :
    LET r == [NoRequest EXCEPT !.op = "create", !.file = f, !.body = b]
    IN  /\ CanStart
        /\ served' = served + 1
        /\ IF ~ CreateValidators(r.body)
             THEN /\ ErrorHandler(r, 422)
                  /\ UNCHANGED handlers
             ELSE /\ Begin([r EXCEPT !.pc = "getCoordsForAddress"])
                  /\ UNCHANGED <<res, pendingUnlinks>>
        /\ UNCHANGED <<positions, users, nextId, unhandled, uncaught>>

\* The handler h throws outside a try block: its promise rejects and nothing
\* handles the rejection.  No response is sent, and the runtime either only
\* warns or ends the process.
Rejected(h, error) ==
  /\ unhandled' = unhandled \cup {[op |-> h.op, error |-> error]}
  /\ \E fatal \in BOOLEAN :
       IF fatal
         THEN /\ uncaught' = [source |-> h.op, value |-> error]
              /\ handlers' = EmptyBag
              /\ pendingUnlinks' = {}
         ELSE /\ End(h)
              /\ UNCHANGED <<uncaught, pendingUnlinks>>

\* getCoordsForAddress throws: next(error).
CreateGeocodeThrows(h) ==
  /\ At(h, "create", "getCoordsForAddress")
  /\ \E code \in GeocodeErrorCodes : NextError(h, h, code)
  /\ UNCHANGED <<positions, users, nextId, unhandled, served, uncaught>>

\* getCoordsForAddress resolves, the request has no file: req.file.path is
\* read on undefined.
CreateNoFile(h) ==
  /\ At(h, "create", "getCoordsForAddress")
  /\ h.file = NoFile
  /\ Rejected(h, "TypeError")
  /\ UNCHANGED <<positions, users, nextId, served, res>>

\* getCoordsForAddress resolves; new Position(...); User.findById is awaited.
CreateGeocoded(h) ==
  /\ At(h, "create", "getCoordsForAddress")
  /\ h.file # NoFile
  /\ \E c \in Coordinates, u \in Requesters :
       Step(h, [h EXCEPT !.userId = u,
                         !.position = NewPosition(nextId, h.body, c, h.file, u),
                         !.id = nextId,
                         !.storeCalls = @ + 1,
                         !.pc = "User.findById"])
  /\ nextId' = nextId + 1
  /\ UNCHANGED <<res, pendingUnlinks>>
  /\ UNCHANGED <<positions, users, unhandled, served, uncaught>>

CreateGeocode(h) ==
  \/ CreateGeocodeThrows(h)
  \/ CreateNoFile(h)
  \/ CreateGeocoded(h)

\* User.findById settles; the session and transaction start;
\* createdPosition.save({ session }) is awaited.
CreateFindUser(h) ==
  /\ At(h, "create", "User.findById")
  /\ \/ NextError(h, h, 500)
     \/ LET u == CastObjectId(h.userId)
        IN  IF u \notin UserIds
              THEN NextError(h, h, 404)
              ELSE /\ Step(h, [h EXCEPT !.user = [id |-> u],
                                        !.sess = {},
                                        !.storeCalls = @ + 1,
                                        !.pc = "createdPosition.save"])
                   /\ UNCHANGED <<res, pendingUnlinks>>
  /\ UNCHANGED <<positions, users, nextId, unhandled, served, uncaught>>

CreateSavePosition_noSession(h) ==
  /\ At(h, "create", "createdPosition.save")
  /\ \/ TxnFailed(h)
     \/ /\ Step(h, [h EXCEPT !.storeCalls = @ + 1,
                             !.pc = "user.save"])
        /\ positions' = CommitPositions(positions, {InsertOp(h.position)})
        /\ UNCHANGED <<users, res, pendingUnlinks>>
  /\ UNCHANGED <<nextId, unhandled, served, uncaught>>

\* createdPosition.save settles; user.positions.push(createdPosition);
\* user.save({ session }) is awaited.
CreateSavePosition(h) ==
  /\ At(h, "create", "createdPosition.save")
  /\ \/ TxnFailed(h)
     \/ /\ Step(h, [h EXCEPT !.sess = @ \cup {InsertOp(h.position)},
                             !.storeCalls = @ + 1,
                             !.pc = "user.save"])
        /\ UNCHANGED <<positions, users, res, pendingUnlinks>>
  /\ UNCHANGED <<nextId, unhandled, served, uncaught>>

\* user.save settles; sess.commitTransaction() is awaited.
CreateSaveUser(h) ==
  /\ At(h, "create", "user.save")
  /\ \/ TxnFailed(h)
     \/ /\ Step(h, [h EXCEPT !.sess = @ \cup {PushOp(h.user, h.position)},
                             !.storeCalls = @ + 1,
                             !.pc = "commitTransaction"])
        /\ UNCHANGED <<positions, users, res, pendingUnlinks>>
  /\ UNCHANGED <<nextId, unhandled, served, uncaught>>

\* commitTransaction settles; res.status(201).json({ position: createdPosition }).
CreateCommit(h) ==
  /\ At(h, "create", "commitTransaction")
  /\ \/ TxnFailed(h)
     \/ /\ positions' = CommitPositions(positions, h.sess)
        /\ users' = CommitUsers(users, h.sess)
        /\ End(h)
        /\ Reply(h, 201, h.position)
        /\ UNCHANGED pendingUnlinks
  /\ UNCHANGED <<nextId, unhandled, served, uncaught>>

(***************************************************************************)
(* update                                                                  *)
(***************************************************************************)
NotCreatorUpdate_unchecked(position, userId) == FALSE

\* position.creator.toString() !== req.userData.userId
NotCreatorUpdate(position, userId) == IdToString(position.creator) # userId

\* The filter of position.save(): mongoose matches the document by _id alone.
SaveWhere_versioned(stored, loaded) ==
  /\ stored # Null
  /\ stored.title = loaded.title
  /\ stored.description = loaded.description

SaveWhere(stored, loaded) == stored # Null

SavePosition_withAddress(ps, position, loaded) ==
  [ps EXCEPT ![position.id] =
     IF @ = Null THEN @
     ELSE [@ EXCEPT !.title = position.title,
                    !.description = position.description,
                    !.address = ""]]

\* position.save(): $set of the paths modified since the document was loaded.
SavePosition(ps, position, loaded) ==
  [ps EXCEPT ![position.id] =
     IF @ = Null THEN @
     ELSE [@ EXCEPT
             !.title = IF position.title # loaded.title THEN position.title ELSE @,
             !.description = IF position.description # loaded.description
                               THEN position.description ELSE @]]

\* PUT /:id: validationResult, then Position.findById is awaited.
UpdateRequest ==
  \E b \in UpdateBodies :
    LET r == [NoRequest EXCEPT !.op = "update", !.body = b]
    IN  /\ CanStart
        /\ served' = served + 1
        /\ IF ~ UpdateValidators(r.body)
             THEN /\ ErrorHandler(r, 422)
                  /\ UNCHANGED handlers
             ELSE /\ Begin([r EXCEPT !.storeCalls = 1, !.pc = "Position.findById"])
                  /\ UNCHANGED <<res, pendingUnlinks>>
        /\ UNCHANGED <<positions, users, nextId, unhandled, uncaught>>

\* A lookup by id: the committed document, or Null.
FindById(ps, id) == IF id \in PositionIds THEN ps[id] ELSE Null

\* req.params.id: the id of a Position created so far, or one (0) that no
\* Position ever had.
ParamIds == 0 .. nextId - 1

\* Position.findById throws: the catch block answers 500.
UpdateFindThrows(h) ==
  /\ At(h, "update", "Position.findById")
  /\ \E i \in ParamIds : NextError(h, [h EXCEPT !.id = i], 500)
  /\ UNCHANGED <<positions, users, nextId, unhandled, served, uncaught>>

\* Position.findById resolves null: position.creator is read on null.  The
\* TypeError rejects the handler's promise, which nothing handles: no
\* response is sent, and the runtime either only warns or ends the process.
UpdateFindNull(h) ==
  /\ At(h, "update", "Position.findById")
  /\ \E i \in ParamIds :
       /\ FindById(positions, i) = Null
       /\ Rejected(h, "TypeError")
  /\ UNCHANGED <<positions, users, nextId, served, res>>

\* Position.findById resolves a document: the creator check, then title and
\* description are assigned and position.save() is awaited.
UpdateFindFound(h) ==
  /\ At(h, "update", "Position.findById")
  /\ \E i \in ParamIds, u \in Requesters :
       /\ FindById(positions, i) # Null
       /\ LET position == FindById(positions, i)
              r == [h EXCEPT !.id = i, !.userId = u]
          IN  IF NotCreatorUpdate(position, u)
                THEN NextError(h, r, 401)
                ELSE /\ Step(h, [r EXCEPT !.loaded = position,
                                          !.position = [position EXCEPT
                                              !.title = r.body.title,
                                              !.description = r.body.description],
                                          !.storeCalls = @ + 1,
                                          !.pc = "position.save"])
                     /\ UNCHANGED <<res, pendingUnlinks>>
  /\ UNCHANGED <<positions, users, nextId, unhandled, served, uncaught>>

UpdateFind(h) ==
  \/ UpdateFindThrows(h)
  \/ UpdateFindNull(h)
  \/ UpdateFindFound(h)

\* position.save throws: the catch block answers 500.
UpdateSaveThrows(h) ==
  /\ At(h, "update", "position.save")
  /\ NextError(h, h, 500)
  /\ UNCHANGED <<positions, users, nextId, unhandled, served, uncaught>>

\* position.save resolves: res.status(200).json({ position }).  A save that
\* matches no document is a DocumentNotFoundError, caught as above.
UpdateSaved(h) ==
  /\ At(h, "update", "position.save")
  /\ IF SaveWhere(FindById(positions, h.id), h.loaded)
       THEN /\ positions' = SavePosition(positions, h.position, h.loaded)
            /\ End(h)
            /\ Reply(h, 200, h.position)
            /\ UNCHANGED pendingUnlinks
       ELSE /\ NextError(h, h, 500)
            /\ UNCHANGED positions
  /\ UNCHANGED <<users, nextId, unhandled, served, uncaught>>

UpdateSave(h) ==
  \/ UpdateSaveThrows(h)
  \/ UpdateSaved(h)

(***************************************************************************)
(* del                                                                     *)
(***************************************************************************)
\* position.creator.id !== req.userData.userId, on the populated creator.
NotCreatorDel(creator, userId) == IdToString(creator.id) # userId

\* DELETE /:id: Position.findById(positionId).populate('creator') is awaited.
DelRequest ==
  /\ CanStart
  /\ served' = served + 1
  /\ Begin([NoRequest EXCEPT !.op = "del", !.storeCalls = 1,
                             !.pc = "Position.findById"])
  /\ UNCHANGED <<positions, users, nextId, res, unhandled, pendingUnlinks, uncaught>>

\* The query finds the Position (404 when there is none); populate then
\* queries the User collection for its creator.
DelFind(h) ==
  /\ At(h, "del", "Position.findById")
  /\ \E i \in ParamIds :
       LET r == [h EXCEPT !.id = i]
       IN  \/ NextError(h, r, 500)
           \/ IF FindById(positions, i) = Null
                THEN NextError(h, r, 404)
                ELSE /\ Step(h, [r EXCEPT !.loaded = FindById(positions, i),
                                          !.storeCalls = @ + 1,
                                          !.pc = "populate"])
                     /\ UNCHANGED <<res, pendingUnlinks>>
  /\ UNCHANGED <<positions, users, nextId, unhandled, served, uncaught>>

\* populate settles and `position` is assigned; the creator check; the
\* session and transaction start; position.remove({ session }) is awaited.
DelPopulate(h) ==
  /\ At(h, "del", "populate")
  /\ \/ NextError(h, h, 500)
     \/ \E u \in Requesters :
          LET position == h.loaded
              creator == [id |-> position.creator]
              r == [h EXCEPT !.userId = u]
          IN  IF NotCreatorDel(creator, u)
                THEN NextError(h, r, 401)
                ELSE /\ Step(h, [r EXCEPT !.loaded = Null,
                                          !.position = position,
                                          !.user = creator,
                                          !.sess = {},
                                          !.storeCalls = @ + 1,
                                          !.pc = "position.remove"])
                     /\ UNCHANGED <<res, pendingUnlinks>>
  /\ UNCHANGED <<positions, users, nextId, unhandled, served, uncaught>>

\* position.remove settles; position.creator.positions.pull(position);
\* position.creator.save({ session }) is awaited.
DelRemove(h) ==
  /\ At(h, "del", "position.remove")
  /\ \/ TxnFailed(h)
     \/ /\ Step(h, [h EXCEPT !.sess = @ \cup {RemoveOp(h.position)},
                             !.storeCalls = @ + 1,
                             !.pc = "creator.save"])
        /\ UNCHANGED <<positions, users, res, pendingUnlinks>>
  /\ UNCHANGED <<nextId, unhandled, served, uncaught>>

\* position.creator.save settles; sess.commitTransaction() is awaited.
DelSaveUser(h) ==
  /\ At(h, "del", "creator.save")
  /\ \/ TxnFailed(h)
     \/ /\ Step(h, [h EXCEPT !.sess = @ \cup {PullAllOp(h.user, h.position)},
                             !.storeCalls = @ + 1,
                             !.pc = "commitTransaction"])
        /\ UNCHANGED <<positions, users, res, pendingUnlinks>>
  /\ UNCHANGED <<nextId, unhandled, served, uncaught>>

\* commitTransaction settles; fs.unlink(imagePath, callback) is issued;
\* res.status(200).json({ message: 'Deleted position.' }).
DelCommit(h) ==
  /\ At(h, "del", "commitTransaction")
  /\ \/ TxnFailed(h)
     \/ /\ positions' = CommitPositions(positions, h.sess)
        /\ users' = CommitUsers(users, h.sess)
        /\ End(h)
        /\ Reply(h, 200, Null)
        /\ pendingUnlinks' = pendingUnlinks \cup {"del"}
  /\ UNCHANGED <<nextId, unhandled, served, uncaught>>

(***************************************************************************)
(* The callback of fs.unlink, err => { throw err; }: it throws what it is  *)
(* given, the error of a failed deletion or the null of a successful one,  *)
(* and nothing catches it: the process ends, and with it every handler in  *)
(* flight and every callback still pending.  The store keeps what was      *)
(* committed.                                                              *)
(***************************************************************************)
UnlinkErrors == {"null", "ENOENT"}

UnlinkCallback ==
  /\ Running
  /\ \E from \in pendingUnlinks, err \in UnlinkErrors :
       uncaught' = [source |-> from, value |-> err]
  /\ pendingUnlinks' = {}
  /\ handlers' = EmptyBag
  /\ UNCHANGED <<positions, users, nextId, res, unhandled, served>>

Next ==
  \/ CreateRequest
  \/ UpdateRequest
  \/ DelRequest
  \/ \E h \in BagToSet(handlers) :
       \/ CreateGeocode(h)
       \/ CreateFindUser(h)
       \/ CreateSavePosition(h)
       \/ CreateSaveUser(h)
       \/ CreateCommit(h)
       \/ UpdateFind(h)
       \/ UpdateSave(h)
       \/ DelFind(h)
       \/ DelPopulate(h)
       \/ DelRemove(h)
       \/ DelSaveUser(h)
       \/ DelCommit(h)
  \/ UnlinkCallback

Spec == Init /\ [][Next]_vars

(***************************************************************************)
(* What the properties below speak of.                                     *)
(***************************************************************************)
Exists(i) == positions[i] # Null

InFlight == BagToSet(handlers)

TxnPcs == {"createdPosition.save", "user.save", "position.remove", "creator.save",
           "commitTransaction"}

\* This step is one of the handler h: it moved on or ended, the process running.
StepOf(h) ==
  /\ CopiesIn(h, handlers') < CopiesIn(h, handlers)
  /\ uncaught' = uncaught

\* This step ended a handler with a response, or answered an arriving request.
Answered ==
  /\ uncaught' = uncaught
  /\ unhandled' = unhandled
  /\ \/ BagCardinality(handlers') < BagCardinality(handlers)
     \/ served' # served /\ handlers' = handlers

SameFrame(i) ==
  /\ positions'[i].address = positions[i].address
  /\ positions'[i].location = positions[i].location
  /\ positions'[i].image = positions[i].image
  /\ positions'[i].creator = positions[i].creator

(***************************************************************************)
(* C1.  In every committed store state, whatever the interleaving of       *)
(* create, update and del: a Position p exists with creator u if and only  *)
(* if User u's positions set contains p's id.                              *)
(***************************************************************************)
C1_OwnerReference ==
  \A i \in PositionIds, u \in UserIds :
    (Exists(i) /\ positions[i].creator = u) <=> i \in users[u]

\* A Position and its owner reference are committed while another request's
\* session holds writes that are not.
C1_Witness ==
  \E i \in PositionIds :
    /\ Exists(i)
    /\ i \in users[positions[i].creator]
    /\ \E h \in InFlight : h.sess # {}

(***************************************************************************)
(* C2.  When create answers 201, the Position it returns has the requester *)
(* as creator, and the requester's positions set then contains its id (the *)
(* Position being in the store, with that creator).                        *)
(***************************************************************************)
C2_CreateSucceeded ==
  res.status = 201 =>
    /\ res.op = "create"
    /\ IdToString(res.position.creator) = res.userId
    /\ CastObjectId(res.userId) \in UserIds
    /\ res.position.id \in users[CastObjectId(res.userId)]
    /\ Exists(res.position.id)
    /\ positions[res.position.id].creator = CastObjectId(res.userId)

C2_Witness ==
  /\ res.status = 201
  /\ res.userId = IdToString(2)
  /\ res.position.title = "Cafe"
  /\ res.position.id \in users[2]

(***************************************************************************)
(* C3.  When del answers 200, the Position is in the store no more and no  *)
(* User's positions set contains its id.                                   *)
(***************************************************************************)
C3_DelSucceeded ==
  (res.op = "del" /\ res.status = 200) =>
    /\ res.id \in PositionIds
    /\ ~ Exists(res.id)
    /\ \A u \in UserIds : res.id \notin users[u]

C3_Witness ==
  /\ res.op = "del"
  /\ res.status = 200
  /\ res.userId = IdToString(2)
  /\ ~ Exists(res.id)
  /\ users[2] = {}

(***************************************************************************)
(* C4.  Only its creator mutates a Position.  No update or del handler     *)
(* gets past the creator check for a requester that is not the creator; a  *)
(* request of a requester that is not the creator, on a Position that the  *)
(* lookup found, is answered 401; and the step that answers 401 changes    *)
(* no Position and no User's positions set, so that every Position in the  *)
(* store before it is still there.                                         *)
(***************************************************************************)
C4_PastTheCheck ==
  \A h \in InFlight :
    (h.op \in {"update", "del"} /\ h.position # Null) =>
      IdToString(h.position.creator) = h.userId

C4_Answered401 ==
  ( /\ res.op \in {"update", "del"}
    /\ res.userId \in Requesters
    /\ res.id \in PositionIds
    /\ Exists(res.id)
    /\ IdToString(positions[res.id].creator) # res.userId ) => res.status = 401

C5_AllOrNothing ==
  [][\A h \in InFlight :
       (h.pc \in TxnPcs /\ StepOf(h)) =>
         \/ /\ h.pc = "commitTransaction"
            /\ res'.status \in {200, 201}
         \/ /\ UNCHANGED <<positions, users>>
            /\ BagCardinality(handlers') < BagCardinality(handlers) => res'.status = 500]_vars

\* create failed at user.save, its second write: the Position it had saved
\* in the session is not in the store, nor its id in a positions set.
C5_Witness ==
  /\ res.op = "create"
  /\ res.status = 500
  /\ res.storeCalls = 3
  /\ ~ Exists(res.id)
  /\ \A u \in UserIds : res.id \notin users[u]

(***************************************************************************)
(* C6.  create and update answer 422 when title is empty or description    *)
(* has fewer than 5 characters (create: or address is empty), having made  *)
(* no call to the store: no handler is in flight for such a body, and the  *)
(* response to such a request is 422 with no store call.                   *)
(***************************************************************************)
InvalidBody(op, body) ==
  \/ body.title = ""
  \/ Len(body.description) < 5
  \/ op = "create" /\ body.address = ""

C6_InvalidRejected ==
  /\ \A h \in InFlight :
       h.op \in {"create", "update"} => ~ InvalidBody(h.op, h.body)
  /\ (res.op \in {"create", "update"} /\ InvalidBody(res.op, res.body)) =>
       (res.status = 422 /\ res.storeCalls = 0)

C6_Witness ==
  /\ res.op = "update"
  /\ res.status = 422
  /\ res.body.title = "Bar"
  /\ Len(res.body.description) = 4
  /\ res.storeCalls = 0
  /\ \E i \in PositionIds : Exists(i)

(***************************************************************************)
(* C7.  update of an id that matches no Position ends with an error        *)
(* response: no handler of update ends without a response, by a rejection  *)
(* nothing handles or an exception nothing catches.                        *)
(***************************************************************************)
C7_UpdateMissingAnswered ==
  /\ \A e \in unhandled : e.op # "update"
  /\ uncaught.source # "update"

(***************************************************************************)
(* C8.  The deletion of the image file after del has committed is not      *)
(* fatal: whatever its outcome, the unlink callback of del never ends the  *)
(* process.                                                                *)
(***************************************************************************)
C8_UnlinkNotFatal == uncaught.source # "del"

(***************************************************************************)
(* C9.  A successful update changes title and description only: the set   *)
(* of Positions, every User's positions set, and the address, location,    *)
(* image and creator of every Position are as before; and no step at all   *)
(* changes those four fields of a Position that stays in the store.        *)
(***************************************************************************)
C9_UpdateFrame ==
  [][ /\ \A h \in InFlight :
           (h.op = "update" /\ StepOf(h)) =>
             /\ users' = users
             /\ \A i \in PositionIds : Exists(i)' <=> Exists(i)
      /\ \A i \in PositionIds : (Exists(i) /\ Exists(i)') => SameFrame(i) ]_vars

C9_Witness ==
  /\ res.op = "update"
  /\ res.status = 200
  /\ Exists(res.id)
  /\ positions[res.id].title = "Pub"
  /\ positions[res.id].description = "Nice bar"
  /\ positions[res.id].address = "1 Main St"
  /\ positions[res.id].creator = CastObjectId(res.userId)
  /\ res.id \in users[positions[res.id].creator]

(***************************************************************************)
(* C10.  A lost update is reachable.  Whenever a save of update is pending *)
(* on a Position that is in the store, whatever was saved to it since the  *)
(* handler loaded it, the save can succeed: answer 200 and store the       *)
(* title and description the handler changed.                              *)
(***************************************************************************)
C10_StaleSaveAccepted ==
  \A h \in InFlight :
    (Running /\ h.op = "update" /\ h.pc = "position.save" /\ Exists(h.id)) =>
      ENABLED ( /\ UpdateSaved(h)
                /\ res'.status = 200
                /\ h.position.title # h.loaded.title =>
                     positions'[h.id].title = h.position.title
                /\ h.position.description # h.loaded.description =>
                     positions'[h.id].description = h.position.description )

\* One update has answered 200 and its title is stored; another, of the
\* creator too, loaded the same Position before that save and is about to
\* save its own title over it.
C10_Witness ==
  /\ res.op = "update"
  /\ res.status = 200
  /\ res.position.title = "Bar"
  /\ Exists(res.id)
  /\ positions[res.id].title = "Bar"
  /\ \E h \in InFlight :
       /\ h.op = "update"
       /\ h.pc = "position.save"
       /\ h.id = res.id
       /\ h.loaded.title = "Cafe"
       /\ h.position.title = "Pub"
=============================================================================
